---- MODULE Spec2Model ----
(***************************************************************************)
(* Model of the Mission Control hub firmware (src/src/main.cpp): the game  *)
(* state machine, the button-sequence matcher with its timed error flag,   *)
(* the display projection and the HTTP handlers that drive them.           *)
(*                                                                         *)
(* The program's globals are the variables currentState ..                 *)
(* sequenceErrorExpiresAt.  Every function of the source that touches them *)
(* is an operator from a session record (the globals plus the Serial lines *)
(* printed so far by the running request) to the session record it leaves  *)
(* behind; the actions are the HTTP handlers the event loop dispatches,    *)
(* one request at a time, and the passing of time.                         *)
(***************************************************************************)
EXTENDS Integers, Sequences, FiniteSets, TLC

VARIABLES
  currentState,            \* GameState currentState
  nextSequenceIndex,       \* size_t nextSequenceIndex
  latchTriggered,          \* bool latchTriggered
  conduitsVerified,        \* bool conduitsVerified
  sequenceError,           \* bool sequenceError
  sequenceErrorExpiresAt,  \* unsigned long sequenceErrorExpiresAt
  uptime,                  \* environment: milliseconds since boot (unwrapped)
  ticks,                   \* environment: number of clock steps taken
  request,                 \* observer: the request dispatched last
  pre,                     \* observer: the globals before that request
  serial,                  \* observer: Serial lines printed by that request
  response,                \* observer: HTTP response sent to that request
  earlier,                 \* observer: the operation of the request before it
  latchEdges,              \* observer: latch firings since boot / last reset
  markedAt,                \* observer: uptime of the markSequenceError behind
                           \* the flag that is set or was set before the request
  everVerified,            \* observer: conduits were confirmed since boot
  everComplete             \* observer: MissionComplete was reached since boot

vars == <<currentState, nextSequenceIndex, latchTriggered, conduitsVerified,
          sequenceError, sequenceErrorExpiresAt, uptime, ticks, request, pre,
          serial, response, earlier, latchEdges, markedAt, everVerified,
          everComplete>>

----------------------------------------------------------------------------
(* Bounds of the model *)

\* width in bits of unsigned long / long; the ESP32 has 32, the model keeps
\* the same modular arithmetic on a narrower word (wider than the flash time)
ClockBits == 13

\* number of clock steps explored
MaxTicks == 2

----------------------------------------------------------------------------
(* Program constants *)

SEQUENCE_ERROR_FLASH_MS == 2500

BUTTON_SEQUENCE == <<4, 1, 5, 1, 3, 5, 4, 2, 1, 3, 2, 4, 5, 3, 1>>

BUTTON_SEQUENCE_LENGTH == Len(BUTTON_SEQUENCE)

GameState == {"Puzzle1", "Puzzle2", "Puzzle3", "MissionComplete"}

ConduitConfirmResult == {"Accepted", "AlreadyConfirmed", "WrongState"}

----------------------------------------------------------------------------
(* The millisecond clock and unsigned / signed arithmetic *)

ULONG_RANGE == 2 ^ ClockBits

\* millis(): the uptime, truncated to an unsigned long
millis(t) == t % ULONG_RANGE

\* a + b on unsigned long
ULongAdd(a, b) == (a + b) % ULONG_RANGE

\* a - b on unsigned long
ULongSub(a, b) == (a - b + ULONG_RANGE) % ULONG_RANGE

\* (long)x for an unsigned long x (two's complement)
ToLong(x) == IF x >= ULONG_RANGE \div 2 THEN x - ULONG_RANGE ELSE x

\* static_cast<uint8_t>(value) for an int value
ToUint8(v) == v % 256

----------------------------------------------------------------------------
(* Serial output *)

Line(tag, val) == [tag |-> tag, val |-> val]

Println(s, tag, val) == [s EXCEPT !.serial = Append(@, Line(tag, val))]

Printed(log, tag) == \E i \in 1..Len(log) : log[i].tag = tag

\* the first line a request printed, when it is one of a forced completion or
\* of a conduit confirmation (the operations whose repetition is observed)
Repeatable(log) ==
  IF log # <<>> /\ log[1].tag \in {"RemoteD", "ConduitsConfirmed",
                                   "ConduitsAlready", "ConduitsIgnored"}
    THEN log[1].tag
    ELSE ""

----------------------------------------------------------------------------
(* The game state machine and the sequence matcher *)

\* triggerLatch without the "already triggered" early return
triggerLatch_Unguarded(s) ==
  Println([s EXCEPT !.latchTriggered = TRUE], "LatchTriggered", 0)

triggerLatch(s) ==
  IF s.latchTriggered
    THEN s
    ELSE Println([s EXCEPT !.latchTriggered = TRUE], "LatchTriggered", 0)

resetSequenceTracking(s) == [s EXCEPT !.nextSequenceIndex = 0]

clearSequenceError(s) ==
  [s EXCEPT !.sequenceError = FALSE, !.sequenceErrorExpiresAt = 0]

markSequenceError(s, now) ==
  [s EXCEPT !.sequenceError = TRUE,
            !.sequenceErrorExpiresAt = ULongAdd(now, SEQUENCE_ERROR_FLASH_MS)]

\* isSequenceErrorActive that compares the clock with the expiry as plain
\* unsigned numbers: "millis() >= sequenceErrorExpiresAt"
isSequenceErrorActive_PlainCompare(s, now) ==
  IF ~s.sequenceError
    THEN [st |-> s, ret |-> FALSE]
    ELSE IF now >= s.sequenceErrorExpiresAt
           THEN [st |-> clearSequenceError(s), ret |-> FALSE]
           ELSE [st |-> s, ret |-> TRUE]

\* isSequenceErrorActive without the test of the expiry time
isSequenceErrorActive_NoExpiryTest(s, now) ==
  IF ~s.sequenceError
    THEN [st |-> s, ret |-> FALSE]
    ELSE [st |-> clearSequenceError(s), ret |-> FALSE]

\* isSequenceErrorActive that expires the flag only after the expiry time
isSequenceErrorActive_StrictExpiry(s, now) ==
  IF ~s.sequenceError
    THEN [st |-> s, ret |-> FALSE]
    ELSE IF ToLong(ULongSub(now, s.sequenceErrorExpiresAt)) > 0
           THEN [st |-> clearSequenceError(s), ret |-> FALSE]
           ELSE [st |-> s, ret |-> TRUE]

\* returns the session it leaves and the value it returns
isSequenceErrorActive(s, now) ==
  IF ~s.sequenceError
    THEN [st |-> s, ret |-> FALSE]
    ELSE IF ToLong(ULongSub(now, s.sequenceErrorExpiresAt)) >= 0
           THEN [st |-> clearSequenceError(s), ret |-> FALSE]
           ELSE [st |-> s, ret |-> TRUE]

\* resetGame without "conduitsVerified = false"
resetGame_KeepsConduits(s) ==
  LET s1 == [s EXCEPT !.currentState = "Puzzle1",
                      !.latchTriggered = FALSE]
  IN  Println(resetSequenceTracking(clearSequenceError(s1)), "GameReset", 0)

\* resetGame without "latchTriggered = false"
resetGame_KeepsLatch(s) ==
  LET s1 == [s EXCEPT !.currentState = "Puzzle1",
                      !.conduitsVerified = FALSE]
  IN  Println(resetSequenceTracking(clearSequenceError(s1)), "GameReset", 0)

resetGame(s) ==
  LET s1 == [s EXCEPT !.currentState = "Puzzle1",
                      !.latchTriggered = FALSE,
                      !.conduitsVerified = FALSE]
  IN  Println(resetSequenceTracking(clearSequenceError(s1)), "GameReset", 0)

\* completeMission without triggerLatch()
completeMission_NoLatch(s) ==
  LET s1 == [s EXCEPT !.currentState = "MissionComplete"]
  IN  Println(clearSequenceError(s1), "MissionComplete", 0)

\* completeMission without "currentState = GameState::MissionComplete"
completeMission_KeepsStage(s) ==
  Println(triggerLatch(clearSequenceError(s)), "MissionComplete", 0)

\* completeMission without clearSequenceError()
completeMission_KeepsError(s) ==
  LET s1 == [s EXCEPT !.currentState = "MissionComplete"]
  IN  Println(triggerLatch(s1), "MissionComplete", 0)

completeMission(s) ==
  LET s1 == [s EXCEPT !.currentState = "MissionComplete"]
  IN  Println(triggerLatch(clearSequenceError(s1)), "MissionComplete", 0)

\* advanceToPuzzle whose Puzzle3 branch also asks for verified conduits
advanceToPuzzle_ConduitsGated(s, target) ==
  IF s.currentState = "MissionComplete"
    THEN Println(s, "AlreadyComplete", 0)
  ELSE IF target = "Puzzle2" /\ s.currentState = "Puzzle1"
    THEN Println(clearSequenceError(
                   [s EXCEPT !.currentState = "Puzzle2",
                             !.conduitsVerified = FALSE]),
                 "AdvancedToPuzzle2", 0)
  ELSE IF target = "Puzzle3" /\ s.currentState = "Puzzle2"
                             /\ s.conduitsVerified
    THEN Println(resetSequenceTracking(clearSequenceError(
                   [s EXCEPT !.currentState = "Puzzle3"])),
                 "AdvancedToPuzzle3", 0)
  ELSE IF target = "MissionComplete" /\ s.currentState = "Puzzle3"
    THEN completeMission(s)
  ELSE Println(s, "InvalidTransition", 0)

\* advanceToPuzzle whose Puzzle2 branch does not test the current state
advanceToPuzzle_Puzzle2Unguarded(s, target) ==
  IF s.currentState = "MissionComplete"
    THEN Println(s, "AlreadyComplete", 0)
  ELSE IF target = "Puzzle2"
    THEN Println(clearSequenceError(
                   [s EXCEPT !.currentState = "Puzzle2",
                             !.conduitsVerified = FALSE]),
                 "AdvancedToPuzzle2", 0)
  ELSE IF target = "Puzzle3" /\ s.currentState = "Puzzle2"
    THEN Println(resetSequenceTracking(clearSequenceError(
                   [s EXCEPT !.currentState = "Puzzle3"])),
                 "AdvancedToPuzzle3", 0)
  ELSE IF target = "MissionComplete" /\ s.currentState = "Puzzle3"
    THEN completeMission(s)
  ELSE Println(s, "InvalidTransition", 0)

\* advanceToPuzzle whose Puzzle3 branch does not test the current state
advanceToPuzzle_Puzzle3Unguarded(s, target) ==
  IF s.currentState = "MissionComplete"
    THEN Println(s, "AlreadyComplete", 0)
  ELSE IF target = "Puzzle2" /\ s.currentState = "Puzzle1"
    THEN Println(clearSequenceError(
                   [s EXCEPT !.currentState = "Puzzle2",
                             !.conduitsVerified = FALSE]),
                 "AdvancedToPuzzle2", 0)
  ELSE IF target = "Puzzle3"
    THEN Println(resetSequenceTracking(clearSequenceError(
                   [s EXCEPT !.currentState = "Puzzle3"])),
                 "AdvancedToPuzzle3", 0)
  ELSE IF target = "MissionComplete" /\ s.currentState = "Puzzle3"
    THEN completeMission(s)
  ELSE Println(s, "InvalidTransition", 0)

\* advanceToPuzzle that sets conduitsVerified on entering Puzzle2
advanceToPuzzle_VerifiedOnEntry(s, target) ==
  IF s.currentState = "MissionComplete"
    THEN Println(s, "AlreadyComplete", 0)
  ELSE IF target = "Puzzle2" /\ s.currentState = "Puzzle1"
    THEN Println(clearSequenceError(
                   [s EXCEPT !.currentState = "Puzzle2",
                             !.conduitsVerified = TRUE]),
                 "AdvancedToPuzzle2", 0)
  ELSE IF target = "Puzzle3" /\ s.currentState = "Puzzle2"
    THEN Println(resetSequenceTracking(clearSequenceError(
                   [s EXCEPT !.currentState = "Puzzle3"])),
                 "AdvancedToPuzzle3", 0)
  ELSE IF target = "MissionComplete" /\ s.currentState = "Puzzle3"
    THEN completeMission(s)
  ELSE Println(s, "InvalidTransition", 0)

advanceToPuzzle(s, target) ==
  IF s.currentState = "MissionComplete"
    THEN Println(s, "AlreadyComplete", 0)
  ELSE IF target = "Puzzle2" /\ s.currentState = "Puzzle1"
    THEN Println(clearSequenceError(
                   [s EXCEPT !.currentState = "Puzzle2",
                             !.conduitsVerified = FALSE]),
                 "AdvancedToPuzzle2", 0)
  ELSE IF target = "Puzzle3" /\ s.currentState = "Puzzle2"
    THEN Println(resetSequenceTracking(clearSequenceError(
                   [s EXCEPT !.currentState = "Puzzle3"])),
                 "AdvancedToPuzzle3", 0)
  ELSE IF target = "MissionComplete" /\ s.currentState = "Puzzle3"
    THEN completeMission(s)
  ELSE Println(s, "InvalidTransition", 0)

handleRemoteButton(s, button) ==
  IF button \in {"A", "a"}
    THEN advanceToPuzzle(Println(s, "RemoteA", 0), "Puzzle2")
  ELSE IF button \in {"B", "b"}
    THEN advanceToPuzzle(Println(s, "RemoteB", 0), "Puzzle3")
  ELSE IF button \in {"C", "c"}
    THEN resetGame(Println(s, "RemoteC", 0))
  ELSE IF button \in {"D", "d"}
    THEN completeMission(Println(s, "RemoteD", 0))
  ELSE Println(s, "RemoteUnknown", 0)

\* registerButtonPress that ignores presses while the error flag is set
registerButtonPress_LockedWhileError(s, now, buttonId, oob) ==
  IF s.currentState # "Puzzle3" \/ s.sequenceError
    THEN Println(s, "ButtonIgnored", 0)
    ELSE
      LET s1 == Println(s, "ButtonReceived", buttonId)
          expected == IF s.nextSequenceIndex < BUTTON_SEQUENCE_LENGTH
                        THEN BUTTON_SEQUENCE[s.nextSequenceIndex + 1]
                        ELSE oob
      IN  IF buttonId = expected
            THEN
              LET s2 == clearSequenceError(s1)
                  s3 == [s2 EXCEPT !.nextSequenceIndex = @ + 1]
                  s4 == Println(s3, "Progress", s3.nextSequenceIndex)
              IN  IF s4.nextSequenceIndex >= BUTTON_SEQUENCE_LENGTH
                    THEN completeMission(s4)
                    ELSE s4
            ELSE
              resetSequenceTracking(
                markSequenceError(Println(s1, "Incorrect", expected), now))

\* registerButtonPress whose wrong-button branch has no resetSequenceTracking()
registerButtonPress_MismatchKeepsIndex(s, now, buttonId, oob) ==
  IF s.currentState # "Puzzle3"
    THEN Println(s, "ButtonIgnored", 0)
    ELSE
      LET s1 == Println(s, "ButtonReceived", buttonId)
          expected == IF s.nextSequenceIndex < BUTTON_SEQUENCE_LENGTH
                        THEN BUTTON_SEQUENCE[s.nextSequenceIndex + 1]
                        ELSE oob
      IN  IF buttonId = expected
            THEN
              LET s2 == clearSequenceError(s1)
                  s3 == [s2 EXCEPT !.nextSequenceIndex = @ + 1]
                  s4 == Println(s3, "Progress", s3.nextSequenceIndex)
              IN  IF s4.nextSequenceIndex >= BUTTON_SEQUENCE_LENGTH
                    THEN completeMission(s4)
                    ELSE s4
            ELSE
              markSequenceError(Println(s1, "Incorrect", expected), now)

\* registerButtonPress that completes only once the index is past the length
registerButtonPress_LateCompletion(s, now, buttonId, oob) ==
  IF s.currentState # "Puzzle3"
    THEN Println(s, "ButtonIgnored", 0)
    ELSE
      LET s1 == Println(s, "ButtonReceived", buttonId)
          expected == IF s.nextSequenceIndex < BUTTON_SEQUENCE_LENGTH
                        THEN BUTTON_SEQUENCE[s.nextSequenceIndex + 1]
                        ELSE oob
      IN  IF buttonId = expected
            THEN
              LET s2 == clearSequenceError(s1)
                  s3 == [s2 EXCEPT !.nextSequenceIndex = @ + 1]
                  s4 == Println(s3, "Progress", s3.nextSequenceIndex)
              IN  IF s4.nextSequenceIndex > BUTTON_SEQUENCE_LENGTH
                    THEN completeMission(s4)
                    ELSE s4
            ELSE
              resetSequenceTracking(
                markSequenceError(Println(s1, "Incorrect", expected), now))

\* registerButtonPress that ignores presses only once the mission is complete
registerButtonPress_IgnoredWhenComplete(s, now, buttonId, oob) ==
  IF s.currentState = "MissionComplete"
    THEN Println(s, "ButtonIgnored", 0)
    ELSE
      LET s1 == Println(s, "ButtonReceived", buttonId)
          expected == IF s.nextSequenceIndex < BUTTON_SEQUENCE_LENGTH
                        THEN BUTTON_SEQUENCE[s.nextSequenceIndex + 1]
                        ELSE oob
      IN  IF buttonId = expected
            THEN
              LET s2 == clearSequenceError(s1)
                  s3 == [s2 EXCEPT !.nextSequenceIndex = @ + 1]
                  s4 == Println(s3, "Progress", s3.nextSequenceIndex)
              IN  IF s4.nextSequenceIndex >= BUTTON_SEQUENCE_LENGTH
                    THEN completeMission(s4)
                    ELSE s4
            ELSE
              resetSequenceTracking(
                markSequenceError(Println(s1, "Incorrect", expected), now))

\* oob: the byte read past the end of BUTTON_SEQUENCE when the index is not
\* below BUTTON_SEQUENCE_LENGTH (the read is undefined, any byte may come back)
registerButtonPress(s, now, buttonId, oob) ==
  IF s.currentState # "Puzzle3"
    THEN Println(s, "ButtonIgnored", 0)
    ELSE
      LET s1 == Println(s, "ButtonReceived", buttonId)
          expected == IF s.nextSequenceIndex < BUTTON_SEQUENCE_LENGTH
                        THEN BUTTON_SEQUENCE[s.nextSequenceIndex + 1]
                        ELSE oob
      IN  IF buttonId = expected
            THEN
              LET s2 == clearSequenceError(s1)
                  s3 == [s2 EXCEPT !.nextSequenceIndex = @ + 1]
                  s4 == Println(s3, "Progress", s3.nextSequenceIndex)
              IN  IF s4.nextSequenceIndex >= BUTTON_SEQUENCE_LENGTH
                    THEN completeMission(s4)
                    ELSE s4
            ELSE
              resetSequenceTracking(
                markSequenceError(Println(s1, "Incorrect", expected), now))

\* confirmConduitsAligned without the "not in Puzzle2" branch
confirmConduitsAligned_AnyStage(s) ==
  IF s.conduitsVerified
    THEN [st |-> Println(s, "ConduitsAlready", 0), ret |-> "AlreadyConfirmed"]
  ELSE [st |-> Println([s EXCEPT !.conduitsVerified = TRUE],
                       "ConduitsConfirmed", 0),
        ret |-> "Accepted"]

\* confirmConduitsAligned without the "already verified" branch
confirmConduitsAligned_NoAlreadyCheck(s) ==
  IF s.currentState # "Puzzle2"
    THEN [st |-> Println(s, "ConduitsIgnored", 0), ret |-> "WrongState"]
  ELSE [st |-> Println([s EXCEPT !.conduitsVerified = TRUE],
                       "ConduitsConfirmed", 0),
        ret |-> "Accepted"]

confirmConduitsAligned(s) ==
  IF s.currentState # "Puzzle2"
    THEN [st |-> Println(s, "ConduitsIgnored", 0), ret |-> "WrongState"]
  ELSE IF s.conduitsVerified
    THEN [st |-> Println(s, "ConduitsAlready", 0), ret |-> "AlreadyConfirmed"]
  ELSE [st |-> Println([s EXCEPT !.conduitsVerified = TRUE],
                       "ConduitsConfirmed", 0),
        ret |-> "Accepted"]

----------------------------------------------------------------------------
(* The display projection *)

NoStatus == [next |-> 0, slots |-> <<>>]

\* next: the number shown as "Next Input" (0 stands for the check mark);
\* slots: the class of every step of the row
buildSequenceStatusHtml(s) ==
  [next  |-> IF s.nextSequenceIndex < BUTTON_SEQUENCE_LENGTH
               THEN BUTTON_SEQUENCE[s.nextSequenceIndex + 1]
               ELSE 0,
   slots |-> [i \in 1..BUTTON_SEQUENCE_LENGTH |->
                IF i - 1 < s.nextSequenceIndex THEN "done"
                ELSE IF i - 1 = s.nextSequenceIndex THEN "active"
                ELSE "pending"]]

Page(title, unlocked, status, alert) ==
  [title |-> title, unlocked |-> unlocked, status |-> status, alert |-> alert]

storyTextForState(s, now) ==
  IF s.currentState = "Puzzle1"
    THEN [st |-> s, ret |-> Page("Lost Signal", FALSE, NoStatus, FALSE)]
  ELSE IF s.currentState = "Puzzle2"
    THEN [st |-> s,
          ret |-> Page("Power Conduits", s.conduitsVerified, NoStatus, FALSE)]
  ELSE IF s.currentState = "Puzzle3"
    THEN LET e == isSequenceErrorActive(s, now)
         IN  [st |-> e.st,
              ret |-> Page("Button Sequence", FALSE,
                           buildSequenceStatusHtml(s), e.ret)]
  ELSE [st |-> s, ret |-> Page("Mission Complete", FALSE, NoStatus, FALSE)]

gameStateLabel(s) ==
  IF s.currentState = "Puzzle1" THEN "Puzzle 1 - Message Decoding"
  ELSE IF s.currentState = "Puzzle2" THEN "Puzzle 2 - Power Conduits"
  ELSE IF s.currentState = "Puzzle3" THEN "Puzzle 3 - Button Sequence"
  ELSE "Mission Complete"

----------------------------------------------------------------------------
(* The HTTP handlers.  A request argument is present or not and carries a  *)
(* string, written as the sequence of its characters.                      *)

Arg(has, val) == [has |-> has, val |-> val]

NoArg == Arg(FALSE, <<>>)

NoPage == Page("", FALSE, NoStatus, FALSE)

Send(code, text, ch, num, page) ==
  [code |-> code, text |-> text, ch |-> ch, num |-> num, page |-> page]

DigitValue(c) ==
  CASE c = "0" -> 0 [] c = "1" -> 1 [] c = "2" -> 2 [] c = "3" -> 3
    [] c = "4" -> 4 [] c = "5" -> 5 [] c = "6" -> 6 [] c = "7" -> 7
    [] c = "8" -> 8 [] c = "9" -> 9 [] OTHER -> -1

RECURSIVE ParseDigits(_, _)
ParseDigits(str, acc) ==
  IF str = <<>> \/ DigitValue(Head(str)) < 0
    THEN acc
    ELSE ParseDigits(Tail(str), 10 * acc + DigitValue(Head(str)))

\* String::toInt(): the leading decimal number of the string, 0 without one
toInt(str) ==
  IF str # <<>> /\ Head(str) = "-"
    THEN 0 - ParseDigits(Tail(str), 0)
    ELSE ParseDigits(str, 0)

buildDcdPage(s, now) == storyTextForState(s, now)

handleRoot(s, now) ==
  LET r == buildDcdPage(s, now)
  IN  [st |-> r.st, resp |-> Send(200, "DCD page", "", 0, r.ret)]

handleDcdFragment(s, now) ==
  LET r == storyTextForState(s, now)
  IN  [st |-> r.st, resp |-> Send(200, "DCD fragment", "", 0, r.ret)]

handleControlPanel(s) ==
  [st |-> s, resp |-> Send(200, gameStateLabel(s), "", 0, NoPage)]

handleRemoteEndpoint(s, arg) ==
  IF ~arg.has \/ arg.val = <<>>
    THEN [st |-> s,
          resp |-> Send(400, "Bad request: missing btn parameter", "", 0,
                        NoPage)]
    ELSE LET btn == Head(arg.val)
         IN  [st |-> handleRemoteButton(s, btn),
              resp |-> Send(200, "Remote input accepted", btn, 0, NoPage)]

handlePuzzleButtonEndpoint(s, now, arg, oob) ==
  IF ~arg.has \/ arg.val = <<>>
    THEN [st |-> s,
          resp |-> Send(400, "Bad request: missing id parameter", "", 0,
                        NoPage)]
    ELSE LET value == toInt(arg.val)
         IN  IF value < 1 \/ value > 5
               THEN [st |-> s,
                     resp |-> Send(400, "Bad request: button id must be 1-5",
                                   "", 0, NoPage)]
               ELSE [st |-> registerButtonPress(s, now, ToUint8(value), oob),
                     resp |-> Send(200, "Button press registered", "", value,
                                   NoPage)]

handleConfirmConduitsEndpoint(s) ==
  LET r == confirmConduitsAligned(s)
  IN  [st |-> r.st,
       resp |-> Send(200,
                     CASE r.ret = "Accepted" ->
                            "Conduits confirmed. Code 264 unlocked."
                       [] r.ret = "AlreadyConfirmed" ->
                            "Conduits already verified."
                       [] OTHER ->
                            "Conduit confirmation ignored. Not in Puzzle 2.",
                     "", 0, NoPage)]

handleNotFound(s) ==
  [st |-> s, resp |-> Send(404, "Endpoint not found", "", 0, NoPage)]

----------------------------------------------------------------------------
(* The state machine of the running program *)

\* the globals, as the session a request starts from (nothing printed yet)
Globals ==
  [currentState |-> currentState,
   nextSequenceIndex |-> nextSequenceIndex,
   latchTriggered |-> latchTriggered,
   conduitsVerified |-> conduitsVerified,
   sequenceError |-> sequenceError,
   sequenceErrorExpiresAt |-> sequenceErrorExpiresAt,
   serial |-> <<>>]

\* the globals at their initializers (main.cpp:19-24)
InitialGlobals ==
  [currentState |-> "Puzzle1",
   nextSequenceIndex |-> 0,
   latchTriggered |-> FALSE,
   conduitsVerified |-> FALSE,
   sequenceError |-> FALSE,
   sequenceErrorExpiresAt |-> 0,
   serial |-> <<>>]

Request(handler, arg) == [handler |-> handler, arg |-> arg]

\* values of the btn argument of /remote
RemoteArgs ==
  {NoArg, Arg(TRUE, <<>>)}
    \cup {Arg(TRUE, <<c>>) : c \in {"A", "B", "b", "C", "D", "X"}}
    \cup {Arg(TRUE, <<"c", "x">>)}

\* values of the id argument of /puzzle-button
ButtonArgs ==
  {NoArg, Arg(TRUE, <<>>)}
    \cup {Arg(TRUE, <<c>>) : c \in {"1", "2", "3", "4", "5", "6", "x"}}
    \cup {Arg(TRUE, <<"1", "2">>)}

\* bytes an out-of-bounds read of BUTTON_SEQUENCE may return
OobBytes == {0, 1, 255}

\* clock steps: one millisecond, one short of the flash time, and the step
\* that takes a clock at 0 to the last value whose flash expiry wraps to 0
ClockSteps ==
  {1, SEQUENCE_ERROR_FLASH_MS - 1, ULONG_RANGE - SEQUENCE_ERROR_FLASH_MS}

Init ==
  /\ currentState = InitialGlobals.currentState
  /\ nextSequenceIndex = InitialGlobals.nextSequenceIndex
  /\ latchTriggered = InitialGlobals.latchTriggered
  /\ conduitsVerified = InitialGlobals.conduitsVerified
  /\ sequenceError = InitialGlobals.sequenceError
  /\ sequenceErrorExpiresAt = InitialGlobals.sequenceErrorExpiresAt
  /\ uptime = 0
  /\ ticks = 0
  /\ request = Request("setup", NoArg)
  /\ pre = InitialGlobals
  /\ serial = <<>>
  /\ response = Send(0, "", "", 0, NoPage)
  /\ earlier = ""
  /\ latchEdges = 0
  /\ markedAt = 0
  /\ everVerified = FALSE
  /\ everComplete = FALSE

\* one request served by the event loop: r is what the handler leaves
Dispatch(req, r) ==
  /\ currentState' = r.st.currentState
  /\ nextSequenceIndex' = r.st.nextSequenceIndex
  /\ latchTriggered' = r.st.latchTriggered
  /\ conduitsVerified' = r.st.conduitsVerified
  /\ sequenceError' = r.st.sequenceError
  /\ sequenceErrorExpiresAt' = r.st.sequenceErrorExpiresAt
  /\ serial' = r.st.serial
  /\ response' = r.resp
  /\ request' = req
  /\ pre' = Globals
  /\ earlier' = Repeatable(serial)
  /\ everComplete' = (everComplete \/ r.st.currentState = "MissionComplete")
  /\ everVerified' = (everVerified \/ Printed(r.st.serial, "ConduitsConfirmed"))
  /\ latchEdges' =
       LET base == IF Printed(r.st.serial, "GameReset") THEN 0 ELSE latchEdges
       IN  IF Printed(r.st.serial, "LatchTriggered") /\ base < 2
             THEN base + 1
             ELSE base
  /\ markedAt' =
       IF Printed(r.st.serial, "Incorrect") THEN uptime
       ELSE IF r.st.sequenceError \/ sequenceError THEN markedAt
       ELSE 0
  /\ UNCHANGED <<uptime, ticks>>

Root == Dispatch(Request("handleRoot", NoArg), handleRoot(Globals, millis(uptime)))

DcdFragment ==
  Dispatch(Request("handleDcdFragment", NoArg),
           handleDcdFragment(Globals, millis(uptime)))

ControlPanel ==
  Dispatch(Request("handleControlPanel", NoArg), handleControlPanel(Globals))

Remote ==
  \E arg \in RemoteArgs :
    Dispatch(Request("handleRemoteEndpoint", arg),
             handleRemoteEndpoint(Globals, arg))

PuzzleButton ==
  \E arg \in ButtonArgs :
    \E oob \in IF nextSequenceIndex < BUTTON_SEQUENCE_LENGTH
                 THEN {0} ELSE OobBytes :
      Dispatch(Request("handlePuzzleButtonEndpoint", arg),
               handlePuzzleButtonEndpoint(Globals, millis(uptime), arg, oob))

ConfirmConduits ==
  Dispatch(Request("handleConfirmConduitsEndpoint", NoArg),
           handleConfirmConduitsEndpoint(Globals))

NotFound == Dispatch(Request("handleNotFound", NoArg), handleNotFound(Globals))

\* time passes between two requests
Tick ==
  /\ ticks < MaxTicks
  /\ \E d \in ClockSteps : uptime' = uptime + d
  /\ ticks' = ticks + 1
  /\ request' = Request("tick", NoArg)
  /\ pre' = Globals
  /\ serial' = <<>>
  /\ earlier' = Repeatable(serial)
  /\ response' = Send(0, "", "", 0, NoPage)
  /\ markedAt' = IF sequenceError THEN markedAt ELSE 0
  /\ UNCHANGED <<currentState, nextSequenceIndex, latchTriggered,
                 conduitsVerified, sequenceError, sequenceErrorExpiresAt,
                 latchEdges, everVerified, everComplete>>

Next ==
  \/ Root
  \/ DcdFragment
  \/ ControlPanel
  \/ Remote
  \/ PuzzleButton
  \/ ConfirmConduits
  \/ NotFound
  \/ Tick

Spec == Init /\ [][Next]_vars

TypeOK ==
  /\ currentState \in GameState
  /\ nextSequenceIndex \in 0..BUTTON_SEQUENCE_LENGTH
  /\ latchTriggered \in BOOLEAN
  /\ conduitsVerified \in BOOLEAN
  /\ sequenceError \in BOOLEAN
  /\ sequenceErrorExpiresAt \in 0..(ULONG_RANGE - 1)
  /\ ticks \in 0..MaxTicks

----------------------------------------------------------------------------
(* What the observers say about the request served last *)

\* the globals of a session, without what it printed
Fields(s) == [s EXCEPT !.serial = <<>>]

ResetServed == Printed(serial, "GameReset")

OverrideServed == Printed(serial, "RemoteD")

AdvanceServed == Printed(serial, "RemoteA") \/ Printed(serial, "RemoteB")

AdvanceTarget == IF Printed(serial, "RemoteA") THEN "Puzzle2" ELSE "Puzzle3"

SubmitServed ==
  Printed(serial, "ButtonIgnored") \/ Printed(serial, "ButtonReceived")

ConfirmServed == request.handler = "handleConfirmConduitsEndpoint"

PollServed == request.handler \in {"handleRoot", "handleDcdFragment"}

LatchFired == Printed(serial, "LatchTriggered")

Legal(current, target) ==
  <<current, target>> \in {<<"Puzzle1", "Puzzle2">>, <<"Puzzle2", "Puzzle3">>,
                           <<"Puzzle3", "MissionComplete">>}

Rejected(log) ==
  Printed(log, "AlreadyComplete") \/ Printed(log, "InvalidTransition")

\* number of latch firings printed by a request
Firings(log) == Cardinality({i \in 1..Len(log) : log[i].tag = "LatchTriggered"})

----------------------------------------------------------------------------
(* Properties *)

\* C1: a reset served in any reachable state leaves the session in exactly the
\* initial state: Puzzle1, conduits not verified, index 0, no sequence error
\* (flag false, expiry 0) and the latch not triggered.
C1_ResetRestoresInitialState ==
  /\ Fields(resetGame(Globals)) = InitialGlobals
  /\ ResetServed => Globals = InitialGlobals

\* a reset served after a completed playthrough with verified conduits
C1_Witness ==
  /\ ResetServed
  /\ pre.currentState = "MissionComplete"
  /\ pre.latchTriggered
  /\ pre.conduitsVerified
  /\ pre.nextSequenceIndex = BUTTON_SEQUENCE_LENGTH
  /\ Globals = InitialGlobals

\* C2: advance(target) is rejected and changes no global when the stage is
\* MissionComplete (every target) and when (stage, target) is not one of the
\* three legal pairs: for every target in every reachable state, and for every
\* advance request that was served.
C2_IllegalAdvanceRejected ==
  /\ \A target \in GameState :
       ~Legal(currentState, target) =>
         /\ Fields(advanceToPuzzle(Globals, target)) = Globals
         /\ Rejected(advanceToPuzzle(Globals, target).serial)
  /\ (AdvanceServed /\ ~Legal(pre.currentState, AdvanceTarget)) =>
       /\ Globals = pre
       /\ Rejected(serial)

\* an advance refused in MissionComplete, nothing changed
C2_Witness ==
  /\ AdvanceServed
  /\ pre.currentState = "MissionComplete"
  /\ Printed(serial, "AlreadyComplete")
  /\ Globals = pre
  /\ latchTriggered

\* C3 as stated: complete_mission() from any stage sets MissionComplete and
\* clears the sequence error, and two calls in a row fire the latch exactly
\* once across both.
C3_Original ==
  [][OverrideServed' =>
       /\ currentState' = "MissionComplete"
       /\ ~sequenceError'
       /\ (earlier' = "RemoteD" => Firings(serial) + Firings(serial') = 1)]_vars

\* C3 (amended): complete_mission() from any stage sets MissionComplete and
\* clears the sequence error; it fires the latch exactly when the latch had not
\* fired; of two calls in a row the second never fires it and the stage stays
\* MissionComplete, so the two calls together fire it once when the first
\* came in a stage other than MissionComplete and not at all when it came in
\* MissionComplete.
C3_CompleteMissionFiresAtMostOnce ==
  /\ LET once  == completeMission(Globals)
         twice == completeMission([once EXCEPT !.serial = <<>>])
     IN  /\ once.currentState = "MissionComplete"
         /\ ~once.sequenceError
         /\ Fields(twice) = Fields(once)
         /\ Firings(twice.serial) = 0
         /\ Firings(once.serial) + Firings(twice.serial) =
              IF currentState = "MissionComplete" THEN 0 ELSE 1
  /\ OverrideServed =>
       /\ currentState = "MissionComplete"
       /\ ~sequenceError /\ sequenceErrorExpiresAt = 0
       /\ latchTriggered
       /\ Firings(serial) = IF pre.currentState = "MissionComplete" THEN 0 ELSE 1
       /\ earlier = "RemoteD" =>
            /\ pre.currentState = "MissionComplete"
            /\ Firings(serial) = 0

\* the second of two forced completions in a row: it fires nothing
C3_Witness ==
  /\ OverrideServed
  /\ earlier = "RemoteD"
  /\ pre.currentState = "MissionComplete"
  /\ pre.latchTriggered
  /\ ~LatchFired
  /\ latchEdges = 1
  /\ currentState = "MissionComplete"
  /\ latchTriggered

\* C4: from start-up or a reset up to the next reset the latch fires at most
\* once, it fires exactly in the step that enters MissionComplete (which,
\* since only a reset leaves MissionComplete, is the first entry of the
\* playthrough), and latchTriggered goes back to false only in a reset.
C4_LatchFiresOncePerPlaythrough ==
  /\ latchEdges <= 1
  /\ (~pre.latchTriggered /\ latchTriggered) <=>
       (pre.currentState # "MissionComplete" /\ currentState = "MissionComplete")
  /\ (~pre.latchTriggered /\ latchTriggered) <=> LatchFired
  /\ LatchFired => latchEdges = 1 /\ Firings(serial) = 1
  /\ (pre.currentState = "MissionComplete" /\ currentState # "MissionComplete")
       => ResetServed
  /\ (pre.latchTriggered /\ ~latchTriggered) => ResetServed

\* the final correct button arrives in a second playthrough and fires the
\* latch for the first time since the reset
C4_Witness ==
  /\ Printed(serial, "Progress")
  /\ LatchFired
  /\ latchEdges = 1
  /\ everVerified /\ ~conduitsVerified
  /\ ~pre.latchTriggered
  /\ latchTriggered
  /\ currentState = "MissionComplete"

\* the session after the first k identifiers of the pattern were submitted
RECURSIVE SubmitPattern(_, _, _)
SubmitPattern(s, now, k) ==
  IF k = 0
    THEN s
    ELSE registerButtonPress(SubmitPattern(s, now, k - 1), now,
                             BUTTON_SEQUENCE[k], 0)

\* C5: from Puzzle3 with index 0, submitting the pattern in order raises the
\* index by one per call; the stage stays Puzzle3 through the first N-1 calls
\* and the N-th call makes the stage MissionComplete and fires the latch.
C5_FullPatternCompletes ==
  /\ (currentState = "Puzzle3" /\ nextSequenceIndex = 0) =>
       \A k \in 1..BUTTON_SEQUENCE_LENGTH :
         LET s == SubmitPattern(Globals, millis(uptime), k)
         IN  /\ s.nextSequenceIndex = k
             /\ k < BUTTON_SEQUENCE_LENGTH =>
                  s.currentState = "Puzzle3" /\ ~s.latchTriggered
             /\ k = BUTTON_SEQUENCE_LENGTH =>
                  /\ s.currentState = "MissionComplete"
                  /\ s.latchTriggered
                  /\ Firings(s.serial) = 1
  /\ (Printed(serial, "ButtonReceived")
        /\ pre.nextSequenceIndex < BUTTON_SEQUENCE_LENGTH
        /\ response.num = BUTTON_SEQUENCE[pre.nextSequenceIndex + 1]) =>
       /\ nextSequenceIndex = pre.nextSequenceIndex + 1
       /\ nextSequenceIndex < BUTTON_SEQUENCE_LENGTH =>
            currentState = "Puzzle3" /\ ~latchTriggered
       /\ nextSequenceIndex = BUTTON_SEQUENCE_LENGTH =>
            /\ currentState = "MissionComplete"
            /\ latchTriggered
            /\ LatchFired

\* the last identifier of the pattern was submitted at index N-1
C5_Witness ==
  /\ SubmitServed
  /\ pre.currentState = "Puzzle3"
  /\ pre.nextSequenceIndex = BUTTON_SEQUENCE_LENGTH - 1
  /\ response.num = BUTTON_SEQUENCE[BUTTON_SEQUENCE_LENGTH]
  /\ nextSequenceIndex = BUTTON_SEQUENCE_LENGTH
  /\ currentState = "MissionComplete"
  /\ LatchFired

\* the identifier a session expects next
Expected(s) == BUTTON_SEQUENCE[s.nextSequenceIndex + 1]

\* a button was submitted in Puzzle3 and it was not the expected one
MismatchServed ==
  /\ Printed(serial, "ButtonReceived")
  /\ pre.nextSequenceIndex < BUTTON_SEQUENCE_LENGTH
  /\ response.num # Expected(pre)

\* what C6 says of the mismatch itself: index back to 0, flag set, expiry at
\* the time of the mismatch plus the flash time
MismatchMarksError ==
  /\ MismatchServed =>
       /\ nextSequenceIndex = 0
       /\ sequenceError
       /\ sequenceErrorExpiresAt = millis(uptime + SEQUENCE_ERROR_FLASH_MS)
       /\ markedAt = uptime
       /\ Printed(serial, "Incorrect")
  /\ Printed(serial, "Incorrect") => MismatchServed
  /\ \A id \in 1..5 :
       (currentState = "Puzzle3" /\ id # Expected(Globals)) =>
         LET s == registerButtonPress(Globals, millis(uptime), id, 0)
         IN  /\ s.nextSequenceIndex = 0
             /\ s.sequenceError
             /\ s.sequenceErrorExpiresAt =
                  millis(uptime + SEQUENCE_ERROR_FLASH_MS)

\* what C6 says of a poll that queries the flag less than `window`
\* milliseconds after the mismatch: the alert shows before the expiry and the
\* flag is kept, it does not show from the expiry on and the flag is cleared;
\* without a flag no alert shows and nothing changes
PollFollowsExpiry(window) ==
  /\ (PollServed /\ pre.sequenceError /\ uptime - markedAt < window) =>
       /\ pre.currentState = "Puzzle3"
       /\ response.page.alert <=> uptime < markedAt + SEQUENCE_ERROR_FLASH_MS
       /\ Globals = IF response.page.alert THEN pre ELSE clearSequenceError(pre)
  /\ (PollServed /\ ~pre.sequenceError) =>
       ~response.page.alert /\ Globals = pre

\* the same of isSequenceErrorActive called in the current state
QueryFollowsExpiry(window) ==
  /\ (sequenceError /\ uptime - markedAt < window) =>
       LET r == isSequenceErrorActive(Globals, millis(uptime))
       IN  /\ r.ret <=> uptime < markedAt + SEQUENCE_ERROR_FLASH_MS
           /\ r.st = IF r.ret THEN Globals ELSE clearSequenceError(Globals)
  /\ ~sequenceError =>
       isSequenceErrorActive(Globals, millis(uptime)) =
         [st |-> Globals, ret |-> FALSE]

\* C6 as stated: a mismatch in Puzzle3 sets the index to 0 and the flag with
\* expiry = time of mismatch + 2500 ms; the flag reads true at any time before
\* that expiry and false (and is cleared) at any time at or after it.
C6_Original ==
  MismatchMarksError /\ PollFollowsExpiry(uptime + 1)

\* C6 (amended): as stated, for the queries made less than half the range of
\* the millisecond clock (2^31 ms with the 32-bit unsigned long) after the
\* expiry; the comparison is on the signed difference of the wrapped clock.
C6_ErrorFlagExpires ==
  /\ MismatchMarksError
  /\ PollFollowsExpiry(SEQUENCE_ERROR_FLASH_MS + ULONG_RANGE \div 2)
  /\ QueryFollowsExpiry(SEQUENCE_ERROR_FLASH_MS + ULONG_RANGE \div 2)

\* a poll at exactly the expiry time finds the flag expired and clears it
C6_Witness ==
  /\ PollServed
  /\ pre.sequenceError
  /\ uptime = markedAt + SEQUENCE_ERROR_FLASH_MS
  /\ ~response.page.alert
  /\ ~sequenceError

\* button ids a caller of registerButtonPress may pass: the five buttons, the
\* neighbours of their range and the largest uint8_t
ButtonIds == {0, 1, 2, 3, 4, 5, 6, 255}

\* C7: a button submitted while the stage is not Puzzle3 is ignored, whatever
\* the identifier, and changes no global.
C7_SubmitOutsidePuzzle3Ignored ==
  /\ currentState # "Puzzle3" =>
       \A id \in ButtonIds :
         registerButtonPress(Globals, millis(uptime), id, 0) =
           Println(Globals, "ButtonIgnored", 0)
  /\ (SubmitServed /\ pre.currentState # "Puzzle3") =>
       /\ Globals = pre
       /\ Printed(serial, "ButtonIgnored")
       /\ ~Printed(serial, "ButtonReceived")
  /\ Printed(serial, "ButtonIgnored") => pre.currentState # "Puzzle3"

\* a button ignored in Puzzle2 after the conduits were verified
C7_Witness ==
  /\ SubmitServed
  /\ pre.currentState = "Puzzle2"
  /\ pre.conduitsVerified
  /\ response.num = BUTTON_SEQUENCE[1]
  /\ Printed(serial, "ButtonIgnored")
  /\ Globals = pre

\* the ConduitConfirmResult behind the text handleConfirmConduitsEndpoint sent
ConfirmResult ==
  CASE response.text = "Conduits confirmed. Code 264 unlocked." -> "Accepted"
    [] response.text = "Conduits already verified." -> "AlreadyConfirmed"
    [] response.text = "Conduit confirmation ignored. Not in Puzzle 2." ->
         "WrongState"
    [] OTHER -> "none"

\* C8: confirm_conduits() returns WrongState, nothing changed, outside
\* Puzzle2; AlreadyConfirmed, nothing changed, in Puzzle2 with the conduits
\* verified; otherwise Accepted, setting only conduitsVerified; two calls in a
\* row in Puzzle2 starting unverified give Accepted then AlreadyConfirmed.
C8_ConfirmConduitsResults ==
  /\ LET r == confirmConduitsAligned(Globals)
     IN  /\ currentState # "Puzzle2" =>
              r.ret = "WrongState" /\ Fields(r.st) = Globals
         /\ (currentState = "Puzzle2" /\ conduitsVerified) =>
              r.ret = "AlreadyConfirmed" /\ Fields(r.st) = Globals
         /\ (currentState = "Puzzle2" /\ ~conduitsVerified) =>
              /\ r.ret = "Accepted"
              /\ Fields(r.st) = [Globals EXCEPT !.conduitsVerified = TRUE]
              /\ LET r2 == confirmConduitsAligned(Fields(r.st))
                 IN  /\ r2.ret = "AlreadyConfirmed"
                     /\ Fields(r2.st) = Fields(r.st)
  /\ ConfirmServed =>
       /\ pre.currentState # "Puzzle2" =>
            ConfirmResult = "WrongState" /\ Globals = pre
       /\ (pre.currentState = "Puzzle2" /\ pre.conduitsVerified) =>
            ConfirmResult = "AlreadyConfirmed" /\ Globals = pre
       /\ (pre.currentState = "Puzzle2" /\ ~pre.conduitsVerified) =>
            /\ ConfirmResult = "Accepted"
            /\ Globals = [pre EXCEPT !.conduitsVerified = TRUE]
       /\ earlier = "ConduitsConfirmed" =>
            /\ ConfirmResult = "AlreadyConfirmed"
            /\ conduitsVerified
            /\ currentState = "Puzzle2"

\* the second of two confirmations in a row in Puzzle2
C8_Witness ==
  /\ ConfirmServed
  /\ earlier = "ConduitsConfirmed"
  /\ ConfirmResult = "AlreadyConfirmed"
  /\ currentState = "Puzzle2"
  /\ conduitsVerified
  /\ Globals = pre

\* C9: every step that changes the stage into Puzzle2 leaves conduitsVerified
\* false, also after a playthrough in which the conduits were confirmed.
C9_Puzzle2EnteredUnverified ==
  /\ (pre.currentState # "Puzzle2" /\ currentState = "Puzzle2") =>
       ~conduitsVerified
  /\ currentState # "Puzzle2" =>
       \A target \in GameState :
         LET s == advanceToPuzzle(Globals, target)
         IN  s.currentState = "Puzzle2" => ~s.conduitsVerified

\* Puzzle2 entered again after the conduits were confirmed and the game reset
C9_Witness ==
  /\ Printed(serial, "AdvancedToPuzzle2")
  /\ everVerified
  /\ pre.currentState = "Puzzle1"
  /\ currentState = "Puzzle2"
  /\ ~conduitsVerified

NoProgress ==
  nextSequenceIndex = 0 /\ ~sequenceError /\ sequenceErrorExpiresAt = 0

Puzzle3Entered == pre.currentState # "Puzzle3" /\ currentState = "Puzzle3"

MissionCompleteFired == Printed(serial, "MissionComplete")

\* C10 as stated: the index is 0 and no error expiry is set right after
\* entering Puzzle3, after a reset and after mission-complete fires.
C10_Original ==
  (Puzzle3Entered \/ ResetServed \/ MissionCompleteFired) => NoProgress

\* C10 (amended): the index is 0 and no error expiry is set right after
\* entering Puzzle3 and after a reset; when mission-complete fires (override,
\* advance(MissionComplete) or the final correct submission) the error flag and
\* expiry are cleared and the index is left as it is (N after the final
\* correct submission).
C10_ProgressResets ==
  /\ (Puzzle3Entered \/ ResetServed) => NoProgress
  /\ MissionCompleteFired =>
       /\ ~sequenceError /\ sequenceErrorExpiresAt = 0
       /\ nextSequenceIndex =
            IF Printed(serial, "Progress")
              THEN BUTTON_SEQUENCE_LENGTH
              ELSE pre.nextSequenceIndex
  /\ currentState = "Puzzle2" =>
       LET s == advanceToPuzzle(Globals, "Puzzle3")
       IN  /\ s.currentState = "Puzzle3"
           /\ s.nextSequenceIndex = 0
           /\ ~s.sequenceError /\ s.sequenceErrorExpiresAt = 0
  /\ currentState = "Puzzle3" =>
       \A s \in {advanceToPuzzle(Globals, "MissionComplete"),
                 completeMission(Globals)} :
         /\ s.currentState = "MissionComplete"
         /\ s.nextSequenceIndex = nextSequenceIndex
         /\ ~s.sequenceError /\ s.sequenceErrorExpiresAt = 0

\* a completion forced in Puzzle3 part-way through the pattern keeps the index
C10_Witness ==
  /\ OverrideServed
  /\ MissionCompleteFired
  /\ pre.currentState = "Puzzle3"
  /\ pre.nextSequenceIndex > 0
  /\ nextSequenceIndex = pre.nextSequenceIndex
  /\ ~sequenceError /\ sequenceErrorExpiresAt = 0
  /\ currentState = "MissionComplete"

\* C11: conduitsVerified is true only while the stage is Puzzle2, Puzzle3 or
\* MissionComplete, never in Puzzle1.
C11_VerifiedOnlyFromPuzzle2 ==
  conduitsVerified => currentState \in {"Puzzle2", "Puzzle3", "MissionComplete"}

\* a reset served while the conduits were verified puts the stage back to
\* Puzzle1 with the conduits unverified
C11_Witness ==
  /\ ResetServed
  /\ pre.conduitsVerified
  /\ pre.currentState \in {"Puzzle2", "Puzzle3", "MissionComplete"}
  /\ currentState = "Puzzle1"
  /\ ~conduitsVerified

\* C12: latchTriggered is true only if the stage MissionComplete has been
\* reached at some point of the execution so far.
C12_LatchImpliesCompleted ==
  latchTriggered => everComplete

\* the latch is triggered in a second playthrough, after a first completion
\* and a reset
C12_Witness ==
  /\ latchTriggered
  /\ LatchFired
  /\ everComplete
  /\ everVerified /\ ~conduitsVerified
  /\ pre.currentState # "MissionComplete"
  /\ currentState = "MissionComplete"

\* position of a stage in the declaration order of GameState
StageRank(stage) ==
  CASE stage = "Puzzle1" -> 0
    [] stage = "Puzzle2" -> 1
    [] stage = "Puzzle3" -> 2
    [] stage = "MissionComplete" -> 3

\* C13: the stage only moves forward: advanceToPuzzle (every target),
\* completeMission, registerButtonPress, confirmConduitsAligned and the page
\* projection never leave the session in an earlier stage, and leave
\* MissionComplete in place; the same for every request served that was not a
\* reset.
C13_StageMovesForward ==
  /\ \A target \in GameState :
       LET after == advanceToPuzzle(Globals, target).currentState
       IN  /\ StageRank(after) >= StageRank(currentState)
           /\ currentState = "MissionComplete" => after = "MissionComplete"
  /\ completeMission(Globals).currentState = "MissionComplete"
  /\ \A buttonId \in ButtonIds :
       StageRank(registerButtonPress(Globals, millis(uptime), buttonId,
                                     0).currentState)
         >= StageRank(currentState)
  /\ confirmConduitsAligned(Globals).st.currentState = currentState
  /\ storyTextForState(Globals, millis(uptime)).st.currentState = currentState
  /\ ~ResetServed =>
       /\ StageRank(currentState) >= StageRank(pre.currentState)
       /\ pre.currentState = "MissionComplete" =>
            currentState = "MissionComplete"

\* the mission was complete, a request other than a reset was served (an
\* advance or a button press), and the stage is still MissionComplete
C13_Witness ==
  /\ pre.currentState = "MissionComplete"
  /\ AdvanceServed \/ SubmitServed
  /\ Printed(serial, "AlreadyComplete") \/ Printed(serial, "ButtonIgnored")
  /\ currentState = "MissionComplete"

\* conduitsVerified went from false to true in the request served last
VerifiedSet == ~pre.conduitsVerified /\ conduitsVerified

\* C14: conduitsVerified goes from false to true only in a confirmation that
\* returns Accepted while the stage is Puzzle2; advanceToPuzzle (every target),
\* completeMission, resetGame, registerButtonPress and the page projection
\* never set it, nor does a confirmation that does not return Accepted.
C14_VerifiedSetOnlyByAcceptedConfirm ==
  /\ ~conduitsVerified =>
       /\ \A target \in GameState :
            ~advanceToPuzzle(Globals, target).conduitsVerified
       /\ ~completeMission(Globals).conduitsVerified
       /\ ~resetGame(Globals).conduitsVerified
       /\ \A buttonId \in ButtonIds :
            ~registerButtonPress(Globals, millis(uptime), buttonId,
                                 0).conduitsVerified
       /\ ~storyTextForState(Globals, millis(uptime)).st.conduitsVerified
       /\ LET r == confirmConduitsAligned(Globals)
          IN  r.st.conduitsVerified =>
                r.ret = "Accepted" /\ currentState = "Puzzle2"
  /\ VerifiedSet =>
       /\ ConfirmServed
       /\ ConfirmResult = "Accepted"
       /\ pre.currentState = "Puzzle2"
       /\ currentState = "Puzzle2"

\* an accepted confirmation has just set conduitsVerified in Puzzle2
C14_Witness ==
  /\ VerifiedSet
  /\ ConfirmServed
  /\ ConfirmResult = "Accepted"
  /\ pre.currentState = "Puzzle2"

EnteredPuzzle2(s) ==
  /\ Printed(s.serial, "AdvancedToPuzzle2")
  /\ ~Rejected(s.serial)
  /\ s.currentState = "Puzzle2"
  /\ ~s.conduitsVerified
  /\ ~s.sequenceError /\ s.sequenceErrorExpiresAt = 0

\* what advanceToPuzzle(Puzzle3) leaves when it is applied to before
EnteredPuzzle3(before, s) ==
  /\ Printed(s.serial, "AdvancedToPuzzle3")
  /\ ~Rejected(s.serial)
  /\ s.currentState = "Puzzle3"
  /\ s.nextSequenceIndex = 0
  /\ ~s.sequenceError /\ s.sequenceErrorExpiresAt = 0
  /\ s.conduitsVerified = before.conduitsVerified
  /\ s.latchTriggered = before.latchTriggered

\* C16: advanceToPuzzle(Puzzle2) in Puzzle1 is applied and leaves Puzzle2 with
\* the conduits unverified and no sequence error; advanceToPuzzle(Puzzle3) in
\* Puzzle2 is applied whether or not the conduits are verified and leaves
\* Puzzle3 with index 0 and no sequence error, conduitsVerified and
\* latchTriggered as they were; the same for the advance requests served.
C16_LegalAdvanceApplied ==
  /\ currentState = "Puzzle1" =>
       EnteredPuzzle2(advanceToPuzzle(Globals, "Puzzle2"))
  /\ currentState = "Puzzle2" =>
       /\ EnteredPuzzle3(Globals, advanceToPuzzle(Globals, "Puzzle3"))
       /\ \A verified \in BOOLEAN :
            LET s == [Globals EXCEPT !.conduitsVerified = verified]
            IN  EnteredPuzzle3(s, advanceToPuzzle(s, "Puzzle3"))
  /\ (AdvanceServed /\ AdvanceTarget = "Puzzle2"
        /\ pre.currentState = "Puzzle1") =>
       EnteredPuzzle2([Globals EXCEPT !.serial = serial])
  /\ (AdvanceServed /\ AdvanceTarget = "Puzzle3"
        /\ pre.currentState = "Puzzle2") =>
       EnteredPuzzle3(pre, [Globals EXCEPT !.serial = serial])

\* an advance to Puzzle3 was served in Puzzle2 while the conduits were not
\* verified, and the stage is Puzzle3
C16_Witness ==
  /\ AdvanceServed /\ AdvanceTarget = "Puzzle3"
  /\ pre.currentState = "Puzzle2"
  /\ ~pre.conduitsVerified
  /\ currentState = "Puzzle3"
  /\ ~conduitsVerified

\* a button was submitted in Puzzle3 and it was the expected one
MatchServed ==
  /\ Printed(serial, "ButtonReceived")
  /\ pre.currentState = "Puzzle3"
  /\ pre.nextSequenceIndex < BUTTON_SEQUENCE_LENGTH
  /\ response.num = Expected(pre)

\* C17: over every request served the index stays, grows by one or becomes 0;
\* it grows by one only when a button submitted in Puzzle3 equals
\* BUTTON_SEQUENCE[index], which also leaves no sequence error; a button
\* submitted in Puzzle3 that differs sets the index to 0.  The same for
\* registerButtonPress and the other operations applied to any reachable state.
C17_IndexSteps ==
  /\ nextSequenceIndex \in
       {pre.nextSequenceIndex, pre.nextSequenceIndex + 1, 0}
  /\ (nextSequenceIndex = pre.nextSequenceIndex + 1) =>
       /\ MatchServed
       /\ ~sequenceError /\ sequenceErrorExpiresAt = 0
  /\ MatchServed => nextSequenceIndex = pre.nextSequenceIndex + 1
  /\ MismatchServed => nextSequenceIndex = 0
  /\ (currentState = "Puzzle3" /\ nextSequenceIndex < BUTTON_SEQUENCE_LENGTH) =>
       \A buttonId \in ButtonIds :
         LET r == registerButtonPress(Globals, millis(uptime), buttonId, 0)
         IN  IF buttonId = Expected(Globals)
               THEN /\ r.nextSequenceIndex = nextSequenceIndex + 1
                    /\ ~r.sequenceError /\ r.sequenceErrorExpiresAt = 0
               ELSE r.nextSequenceIndex = 0
  /\ currentState # "Puzzle3" =>
       \A buttonId \in ButtonIds :
         registerButtonPress(Globals, millis(uptime), buttonId,
                             0).nextSequenceIndex = nextSequenceIndex
  /\ \A target \in GameState :
       advanceToPuzzle(Globals, target).nextSequenceIndex
         \in {nextSequenceIndex, 0}
  /\ completeMission(Globals).nextSequenceIndex = nextSequenceIndex
  /\ resetGame(Globals).nextSequenceIndex = 0
  /\ confirmConduitsAligned(Globals).st.nextSequenceIndex = nextSequenceIndex
  /\ storyTextForState(Globals, millis(uptime)).st.nextSequenceIndex
       = nextSequenceIndex

\* the expected button was submitted in Puzzle3 while a sequence error was
\* set and progress was made: the index grew by one and the error is cleared
C17_Witness ==
  /\ MatchServed
  /\ pre.sequenceError
  /\ nextSequenceIndex = pre.nextSequenceIndex + 1
  /\ ~sequenceError

\* the globals other than the error flag and its expiry, with what was printed
Outcome(s) ==
  [currentState      |-> s.currentState,
   nextSequenceIndex |-> s.nextSequenceIndex,
   latchTriggered    |-> s.latchTriggered,
   conduitsVerified  |-> s.conduitsVerified,
   serial            |-> s.serial]

\* the sessions that differ from the current one at most in the error flag and
\* its expiry
ErrorTwins ==
  {[Globals EXCEPT !.sequenceError = e, !.sequenceErrorExpiresAt = x] :
     e \in BOOLEAN,
     x \in {0, millis(uptime + SEQUENCE_ERROR_FLASH_MS)}}

\* C18: the error flag and its expiry gate nothing: applied to two sessions
\* that differ only in them, advanceToPuzzle (every target), completeMission,
\* resetGame, confirmConduitsAligned and registerButtonPress (every button)
\* print the same, return the same and leave the same stage, index, latch and
\* conduits.
C18_ErrorFlagGatesNothing ==
  LET advanced == [target \in GameState |->
                     Outcome(advanceToPuzzle(Globals, target))]
      completed == Outcome(completeMission(Globals))
      reset == Outcome(resetGame(Globals))
      confirmed == confirmConduitsAligned(Globals)
      pressed == [buttonId \in ButtonIds |->
                    Outcome(registerButtonPress(Globals, millis(uptime),
                                                buttonId, 0))]
  IN  \A twin \in ErrorTwins :
        /\ \A target \in GameState :
             Outcome(advanceToPuzzle(twin, target)) = advanced[target]
        /\ Outcome(completeMission(twin)) = completed
        /\ Outcome(resetGame(twin)) = reset
        /\ LET a == confirmConduitsAligned(twin)
           IN  a.ret = confirmed.ret /\ Outcome(a.st) = Outcome(confirmed.st)
        /\ \A buttonId \in ButtonIds :
             Outcome(registerButtonPress(twin, millis(uptime), buttonId, 0))
               = pressed[buttonId]

\* the override was served while the error flag was set and fired the latch
C18_Witness ==
  /\ pre.sequenceError
  /\ pre.currentState = "Puzzle3"
  /\ OverrideServed
  /\ LatchFired
  /\ currentState = "MissionComplete"

\* the stage, conduits, latch and index of a session
Progress(s) ==
  <<s.currentState, s.conduitsVerified, s.latchTriggered, s.nextSequenceIndex>>

\* what a page projection may do to the session before: nothing, or, in
\* Puzzle3, clear an error flag set at least the flash time ago
ProjectionEffect(before, after) ==
  /\ Progress(after) = Progress(before)
  /\ before.currentState # "Puzzle3" => after = before
  /\ after # before =>
       /\ before.sequenceError
       /\ after = clearSequenceError(before)
       /\ uptime >= markedAt + SEQUENCE_ERROR_FLASH_MS

\* C19: a page projection leaves stage, conduitsVerified, latchTriggered and
\* the index as they are; all it may change is to clear an error flag whose
\* expiry time has passed, and outside Puzzle3 it changes nothing; for
\* storyTextForState on every reachable state and for every page request
\* served.
C19_PollOnlyClearsExpiredError ==
  /\ ProjectionEffect(Globals,
                      Fields(storyTextForState(Globals, millis(uptime)).st))
  /\ PollServed => ProjectionEffect(Fields(pre), Globals)

\* a fragment request served some time after the expiry cleared the error
\* flag and changed nothing else
C19_Witness ==
  /\ request.handler = "handleDcdFragment"
  /\ pre.currentState = "Puzzle3"
  /\ pre.sequenceError
  /\ pre.nextSequenceIndex = 0
  /\ uptime > markedAt + SEQUENCE_ERROR_FLASH_MS
  /\ ~sequenceError /\ sequenceErrorExpiresAt = 0
  /\ Progress(Globals) = Progress(pre)

\* C20: the index is within 0..BUTTON_SEQUENCE_LENGTH; in Puzzle3 it is below
\* the length, so that neither registerButtonPress nor the status row reads
\* past the end of BUTTON_SEQUENCE (the byte lying there has no effect); it
\* equals the length only in MissionComplete and is 0 in Puzzle1 and Puzzle2.
C20_IndexWithinPattern ==
  /\ nextSequenceIndex \in 0..BUTTON_SEQUENCE_LENGTH
  /\ currentState = "Puzzle3" => nextSequenceIndex < BUTTON_SEQUENCE_LENGTH
  /\ nextSequenceIndex = BUTTON_SEQUENCE_LENGTH =>
       currentState = "MissionComplete"
  /\ currentState \in {"Puzzle1", "Puzzle2"} => nextSequenceIndex = 0
  /\ \A buttonId \in ButtonIds, oob \in OobBytes :
       registerButtonPress(Globals, millis(uptime), buttonId, oob)
         = registerButtonPress(Globals, millis(uptime), buttonId, 0)
  /\ currentState = "Puzzle3" =>
       buildSequenceStatusHtml(Globals).next = Expected(Globals)

\* a button submitted while the index equals the length: the mission is
\* complete and the press is ignored without a read of the pattern
C20_Witness ==
  /\ SubmitServed
  /\ pre.nextSequenceIndex = BUTTON_SEQUENCE_LENGTH
  /\ pre.currentState = "MissionComplete"
  /\ Printed(serial, "ButtonIgnored")
  /\ nextSequenceIndex = BUTTON_SEQUENCE_LENGTH

\* the latch is triggered exactly when the stage of s is MissionComplete
LatchMatchesStage(s) ==
  s.latchTriggered <=> (s.currentState = "MissionComplete")

\* C21: in every reachable state latchTriggered is true exactly when the stage
\* is MissionComplete, and advanceToPuzzle (every target), completeMission,
\* resetGame, registerButtonPress and confirmConduitsAligned keep it so.
C21_LatchIffMissionComplete ==
  /\ LatchMatchesStage(Globals)
  /\ \A target \in GameState :
       LatchMatchesStage(advanceToPuzzle(Globals, target))
  /\ LatchMatchesStage(completeMission(Globals))
  /\ LatchMatchesStage(resetGame(Globals))
  /\ \A buttonId \in ButtonIds :
       LatchMatchesStage(registerButtonPress(Globals, millis(uptime),
                                             buttonId, 0))
  /\ LatchMatchesStage(confirmConduitsAligned(Globals).st)

\* the override served in Puzzle2 skipped to MissionComplete and fired the
\* latch
C21_Witness ==
  /\ OverrideServed
  /\ pre.currentState = "Puzzle2"
  /\ ~pre.latchTriggered
  /\ LatchFired
  /\ latchTriggered
  /\ currentState = "MissionComplete"

\* s was left by an operation applied to before: if the stage changed, no
\* sequence error is set
StageChangeClearsError(before, s) ==
  s.currentState # before.currentState =>
    ~s.sequenceError /\ s.sequenceErrorExpiresAt = 0

\* C22: in every reachable state the error flag is set only in Puzzle3, and
\* whatever changes the stage (advanceToPuzzle, completeMission, resetGame, the
\* last correct button) leaves the flag cleared; for the operations applied to
\* every reachable state and for every request served.
C22_ErrorFlagOnlyInPuzzle3 ==
  /\ sequenceError => currentState = "Puzzle3"
  /\ StageChangeClearsError(pre, Globals)
  /\ \A target \in GameState :
       StageChangeClearsError(Globals, advanceToPuzzle(Globals, target))
  /\ StageChangeClearsError(Globals, completeMission(Globals))
  /\ StageChangeClearsError(Globals, resetGame(Globals))
  /\ \A buttonId \in ButtonIds :
       StageChangeClearsError(Globals,
         registerButtonPress(Globals, millis(uptime), buttonId, 0))

\* a reset served in Puzzle3 while the error flag was set left Puzzle1 with
\* the flag cleared
C22_Witness ==
  /\ ResetServed
  /\ pre.currentState = "Puzzle3"
  /\ pre.sequenceError
  /\ currentState = "Puzzle1"
  /\ ~sequenceError /\ sequenceErrorExpiresAt = 0

\* clock values at which a wrong button is pressed: the present one, the ends
\* of the clock range and the values around which the expiry wraps
MismatchTimes ==
  {millis(uptime), 0,
   ULONG_RANGE - SEQUENCE_ERROR_FLASH_MS - 1,
   ULONG_RANGE - SEQUENCE_ERROR_FLASH_MS,
   ULONG_RANGE - 1}

\* times between the wrong button and the query, all below half the clock range
ElapsedTimes ==
  {0, SEQUENCE_ERROR_FLASH_MS - 1, SEQUENCE_ERROR_FLASH_MS,
   ULONG_RANGE \div 2 - 1}

\* C23: with the expiry stored as (time of the wrong button + flash time)
\* modulo the clock range, isSequenceErrorActive queried less than half the
\* clock range after the wrong button returns true exactly when less than the
\* flash time has elapsed, also when the stored expiry has wrapped; when it
\* returns false it has cleared the flag.  The same for every page request
\* served less than half the clock range after the wrong button.
C23_ExpiryCorrectAcrossWrap ==
  /\ \A t \in MismatchTimes, e \in ElapsedTimes :
       LET marked == markSequenceError(Globals, t)
           q == isSequenceErrorActive(marked, millis(t + e))
       IN  /\ marked.sequenceError
           /\ marked.sequenceErrorExpiresAt
                = (t + SEQUENCE_ERROR_FLASH_MS) % ULONG_RANGE
           /\ q.ret <=> e < SEQUENCE_ERROR_FLASH_MS
           /\ q.st = IF q.ret THEN marked ELSE clearSequenceError(marked)
  /\ (PollServed /\ pre.sequenceError
        /\ uptime - markedAt < ULONG_RANGE \div 2) =>
       /\ pre.sequenceErrorExpiresAt
            = (markedAt + SEQUENCE_ERROR_FLASH_MS) % ULONG_RANGE
       /\ response.page.alert <=> uptime < markedAt + SEQUENCE_ERROR_FLASH_MS
       /\ sequenceError <=> response.page.alert

\* a page request served before the expiry of an error whose stored expiry
\* has wrapped past the end of the clock range: the alert is shown
C23_Witness ==
  /\ PollServed
  /\ pre.sequenceError
  /\ pre.sequenceErrorExpiresAt < millis(markedAt)
  /\ uptime > markedAt
  /\ uptime < markedAt + SEQUENCE_ERROR_FLASH_MS
  /\ response.page.alert
  /\ sequenceError

====
